---------------------------- MODULE Spec2Model ----------------------------
(***************************************************************************)
(* BotPoller (src/azbot-telegram/bot-poller.js) driving BotMaster          *)
(* (src/aztgbot/bot-master.js, lines 1-133) on a single JavaScript event   *)
(* loop.  A step of the model is the code that runs between two awaits;    *)
(* code that JavaScript runs without yielding is either one action or a    *)
(* run of actions protected by the variable running.                       *)
(***************************************************************************)
EXTENDS Integers, Sequences, FiniteSets, TLC

\* ------------------------------------------------------------- bounds
MaxEvents == 2
MaxBatch == 2
MaxTicks == 3
MaxTimeout == 1
MaxInst == 2
MaxChains == 2
MaxSignals == 2
MaxCalls == 3
NumIdents == 2
MaxInterval == 7000
MaxId == 3

Events == 1..MaxEvents
Identifiers == 1..NumIdents
Chains == 1..MaxChains
Insts == 1..MaxInst
Cleanups == 1..MaxSignals
\* Date.now() is far larger than any idle threshold and than the placeholder
\* lastActiveTime of 0.
\* Configured values of opts["destroyTimeout"]; Null stands for null/undefined.
Null == -1
TimeoutOpts == {Null} \cup (1..MaxTimeout)
\* The default 5 * 60 * 1000 of this.destroyTimeout, in the time unit of the
\* model: longer than every configured value.
DefaultDestroyTimeout == MaxTimeout + 1
StartTime == DefaultDestroyTimeout + 1
\* Configured values of opts["pollingInterval"], in milliseconds.
IntervalOpts == {Null} \cup (0..MaxInterval)
DefaultPollingInterval == 1500
coolDownInterval == 6000
NoBot == 0
NoTimer == 0
Idle == 0

VARIABLES
  head,            \* remote queue: events 1..head exist
  evIdent,         \* identify(update) of each event (0: not produced yet)
  floor,           \* remote queue: lowest update_id not yet confirmed
  now,             \* Date.now()
  upd,             \* the update handed to an identify function
  ident,           \* the identify function applied last and what it returned
  offset,          \* pollingParam["offset"]
  isPolling,       \* this.isPolling
  pollingID,       \* this.pollingID: chain whose timer it names, or NoTimer
  skippingUpdates, \* opts["skippingUpdates"]: TRUE (also for null) or FALSE
  skipped,         \* history: the events the answers to skipUpdates() carried
  optPollingInterval, \* opts["pollingInterval"] given to the constructors
  pollingInterval, \* this.pollingInterval
  starts,          \* startPollUpdates calls awaiting skipUpdates()
  cpc,             \* per pollUpdates chain: off, fetch, disp, resolved, rejected, timer
  creq,            \* offset sent with the chain's pending getUpdates
  updates,         \* the batch the chain got
  coolDown,        \* interval chosen by the chain's last setTimeout
  opc,             \* per chain, position in onUpdates: none, loop, onCreate, process, sweep, onRemove
  oidx,            \* index of the update the for loop is at
  osnap,           \* Object.entries(this.bots) taken by the sweep
  osidx,           \* index in osnap
  onew,            \* instance whose onCreate the chain's onUpdates awaits
  running,         \* chain whose onUpdates runs synchronously now, or Idle
  bots,            \* this.bots: identifier -> instance (NoBot: no entry)
  nInst,           \* instances constructed so far
  lastActiveTime,  \* bot["lastActiveTime"] of each instance
  created,         \* onCreate of each instance: none, pending, done, failed
  puPending,       \* whether promises of un-awaited processUpdate() calls are pending
  optDestroyTimeout, \* opts["destroyTimeout"] given to the BotMaster constructor
  destroyTimeout,  \* this.destroyTimeout
  loopPc,          \* loop(): new, startCb, getMe, done, stopCb, aborted; unbuilt before the constructors ran
  kpc,             \* per cleanup run: off, onRemove, stopCb, done
  ksnap,           \* Object.entries(this.bots) taken by the cleanup
  kidx,            \* index in ksnap
  calls,           \* start/stop calls the host made on the poller itself
  stopSeen,        \* history: per chain, whether stopPollUpdates() was called during its cycle
  kcalled,         \* history: the instances a cleanup called onRemove() on
  delivered,       \* history: the events processUpdate was called with
  hist             \* history: facts about the last step, see HistNone

pollerVars == <<offset, isPolling, pollingID, skippingUpdates, skipped, optPollingInterval, pollingInterval, starts, cpc, creq, updates, coolDown>>
dispVars == <<opc, oidx, osnap, osidx, onew, running>>
botVars == <<bots, nInst, lastActiveTime, created, puPending, optDestroyTimeout, destroyTimeout>>
masterVars == <<loopPc, kpc, ksnap, kidx, calls>>
envVars == <<head, evIdent, floor, now, upd, ident>>
vars == <<envVars, pollerVars, dispVars, botVars, masterVars, stopSeen, kcalled, delivered, hist>>

\* ------------------------------------------------------------ helpers
Max(a, b) == IF a >= b THEN a ELSE b
Min(a, b) == IF a <= b THEN a ELSE b
Last(s) == s[Len(s)]
FromTo(lo, hi) == [i \in 1..(IF hi >= lo THEN hi - lo + 1 ELSE 0) |-> lo + i - 1]

\* opts[key] || dflt: null, undefined and 0 are falsy.
OrDefault(opt, dflt) == IF opt = Null \/ opt = 0 THEN dflt ELSE opt

\* An optional value: <<>> stands for null or undefined, <<x>> for x.
Opt(S) == {<<>>} \cup {<<x>> : x \in S}

\* The updates the identify functions are applied to: null, an update
\* without message, and messages whose from and chat are missing, lack the
\* id, or carry one.
Users == [id : Opt(0..MaxId)]
Messages == [from : Opt(Users), chat : Opt(Users)]
UpdateShapes == Opt([message : Opt(Messages)])

\* No identify function has been applied.
NoIdent == [by |-> "none", key |-> ""]

\* Mutant: perFromID without its test of the id; `${undefined}` is "undefined".
perFromIDUnguarded(update) ==
  IF /\ update # <<>>
     /\ update[1].message # <<>>
     /\ update[1].message[1].from # <<>>
  THEN IF update[1].message[1].from[1].id = <<>>
       THEN "undefined"
       ELSE ToString(update[1].message[1].from[1].id[1])
  ELSE "0"

\* perFromID(update): the id of the sender as a string, "0" without one.
perFromID(update) ==
  IF /\ update # <<>>
     /\ update[1].message # <<>>
     /\ update[1].message[1].from # <<>>
     /\ update[1].message[1].from[1].id # <<>>
  THEN ToString(update[1].message[1].from[1].id[1])
  ELSE "0"

\* perChatID(update): the id of the chat as a string, "0" without one.
perChatID(update) ==
  IF /\ update # <<>>
     /\ update[1].message # <<>>
     /\ update[1].message[1].chat # <<>>
     /\ update[1].message[1].chat[1].id # <<>>
  THEN ToString(update[1].message[1].chat[1].id[1])
  ELSE "0"

\* History: what the last step did, for the properties that speak of calls.
\*   cycle:   how a pollUpdates() call ended in this step: ok, empty, fail
\*            (getUpdates threw), rejected (onUpdates threw), malformed (the
\*            answer was no list of updates); none otherwise
\*   batch:   the batch of a cycle that ended ok
\*   before:  the offset the cycle was started with
\*   puCall:  instance processUpdate() was called on in this step (0: none)
\*   puReady: whether that instance's onCreate() had completed
\*   puAgain: whether processUpdate() had been called with that event before
\*   hook:    whether onCreate() or processUpdate() was called in this step
\*   puBusy:  whether an earlier processUpdate() was still in progress then
\*   threw:   whether a session hook threw in this step
\*   chain:   the chain whose onUpdates() made the step (0: none)
\*   evict:   instance the sweep called onRemove() on in this step (0: none)
\*   keep:    instance the sweep examined and kept in this step (0: none)
\*   idle:    Date.now() - lastActiveTime as the sweep computed it
\*   reenter: whether cleanup was called in this step while an earlier call
\*            of it was awaiting onRemove() or stopCallback()
\*   kCall:   instance a cleanup called onRemove() on in this step (0: none)
\*   kAgain:  whether a cleanup had called onRemove() on that instance before
\*   stopCb:  whether a cleanup called stopCallback() in this step
\*   resched: whether the cycle that ended in this step set the timer although
\*            stopPollUpdates() had been called during the cycle
\*   stopCall: what a host call of stopPollUpdates() in this step found:
\*            "polling" (isPolling was true), "stopped" (it was false), or none
\*   skip:    how the skipUpdates() that startPollUpdates() awaited ended in
\*            this step: "returned" (an update), "empty", "failed"; none
\*            otherwise.  chain is then the chain startPollUpdates() started
\*   ret:     what startPollUpdates() resolved with in this step: "true",
\*            "false", "threw", or none
\*   loopStop: whether loop() called stopCallback() in this step
HistNone == [cycle |-> "none", batch |-> <<>>, before |-> 0,
             puCall |-> 0, puReady |-> FALSE, puAgain |-> FALSE,
             hook |-> FALSE, puBusy |-> FALSE, threw |-> FALSE, chain |-> 0,
             evict |-> 0, keep |-> 0, idle |-> 0,
             reenter |-> FALSE, kCall |-> 0, kAgain |-> FALSE, stopCb |-> FALSE,
             resched |-> FALSE, stopCall |-> "none", skip |-> "none", ret |-> "none",
             loopStop |-> FALSE]

\* --------------------------------------------------------------- Init
\* What the constructors set whatever the options are.
Fresh ==
  /\ head = 0
  /\ evIdent = [e \in Events |-> 0]
  /\ floor = 1
  /\ now = StartTime
  /\ ident = NoIdent
  /\ offset = 0
  /\ isPolling = FALSE
  /\ pollingID = NoTimer
  /\ skippingUpdates \in BOOLEAN
  /\ skipped = {}
  /\ starts = 0
  /\ cpc = [c \in Chains |-> "off"]
  /\ creq = [c \in Chains |-> 0]
  /\ updates = [c \in Chains |-> <<>>]
  /\ coolDown = [c \in Chains |-> FALSE]
  /\ opc = [c \in Chains |-> "none"]
  /\ oidx = [c \in Chains |-> 0]
  /\ osnap = [c \in Chains |-> <<>>]
  /\ osidx = [c \in Chains |-> 0]
  /\ onew = [c \in Chains |-> 0]
  /\ running = Idle
  /\ bots = [i \in Identifiers |-> NoBot]
  /\ nInst = 0
  /\ lastActiveTime = [n \in Insts |-> 0]
  /\ created = [n \in Insts |-> "none"]
  /\ puPending = FALSE
  /\ optDestroyTimeout \in TimeoutOpts
  /\ optPollingInterval \in IntervalOpts
  /\ kpc = [k \in Cleanups |-> "off"]
  /\ ksnap = [k \in Cleanups |-> <<>>]
  /\ kidx = [k \in Cleanups |-> 0]
  /\ calls = 0
  /\ stopSeen = [c \in Chains |-> FALSE]
  /\ kcalled = {}
  /\ delivered = {}
  /\ hist = HistNone

\* new BotMaster(botAPI, BotServant, identify, opts), which constructs its
\* BotPoller with opts["pollingInterval"].
Construct ==
  /\ loopPc = "unbuilt"
  /\ loopPc' = "new"
  /\ pollingInterval' = OrDefault(optPollingInterval, DefaultPollingInterval)
  /\ destroyTimeout' = OrDefault(optDestroyTimeout, DefaultDestroyTimeout)
  /\ UNCHANGED <<envVars, offset, isPolling, pollingID, skippingUpdates, skipped, optPollingInterval,
                 starts, cpc, creq, updates, coolDown, dispVars, bots, nInst, lastActiveTime,
                 created, puPending, optDestroyTimeout, kpc, ksnap, kidx, calls,
                 stopSeen, kcalled, delivered, hist>>

\* Before the constructors: any options.
InitOpts ==
  /\ Fresh
  /\ upd = <<>>
  /\ loopPc = "unbuilt"
  /\ pollingInterval = Null
  /\ destroyTimeout = Null

\* After the constructors, opts["pollingInterval"] left out.
Init ==
  /\ Fresh
  /\ upd = <<>>
  /\ optPollingInterval = Null
  /\ loopPc = "new"
  /\ pollingInterval = OrDefault(optPollingInterval, DefaultPollingInterval)
  /\ destroyTimeout = OrDefault(optDestroyTimeout, DefaultDestroyTimeout)

\* -------------------------------------------------------- environment
\* A new update reaches the remote queue; identify() maps it to id.  The
\* queue is read only by the answers to getUpdates, which wait for the
\* synchronous code that is running, so arrivals are placed between such runs.
Produce(id) ==
  /\ running = Idle
  /\ head < MaxEvents
  /\ head' = head + 1
  /\ evIdent' = [evIdent EXCEPT ![head + 1] = id]
  /\ hist' = HistNone
  /\ UNCHANGED <<floor, now, upd, ident, pollerVars, dispVars, botVars, masterVars, stopSeen, kcalled, delivered>>

\* The clock advances.
Tick ==
  /\ now < StartTime + MaxTicks
  /\ now' = now + 1
  /\ hist' = HistNone
  /\ UNCHANGED <<head, evIdent, upd, ident, floor, pollerVars, dispVars, botVars, masterVars, stopSeen, kcalled, delivered>>

\* The batch the remote getUpdates answers to a request with offset req: the
\* unconfirmed updates from req on, oldest first, at most MaxBatch of them; a
\* negative offset asks for the newest update only.
Respond(req) ==
  LET lo == IF req < 0 THEN Max(floor, head) ELSE Max(req, floor)
  IN FromTo(lo, Min(head, lo + MaxBatch - 1))

\* Updates below the offset of a request are confirmed and forgotten.
Confirm(req) == IF req < 0 THEN Max(floor, head) ELSE Max(floor, req)

\* Object.entries(this.bots): [identifier, bot] pairs; the keys are the
\* integer-like strings of perFromID/perChatID, listed in ascending order.
RECURSIVE EntriesFrom(_, _)
EntriesFrom(b, i) ==
  IF i > NumIdents THEN <<>>
  ELSE (IF b[i] = NoBot THEN <<>> ELSE <<[id |-> i, inst |-> b[i]]>>) \o EntriesFrom(b, i + 1)
Entries(b) == EntriesFrom(b, 1)

\* ------------------------------------------------------------- poller
FreeChains == {c \in Chains : cpc[c] = "off"}
NewChain == CHOOSE c \in FreeChains : \A d \in FreeChains : c <= d
\* A chain slot is kept for every startPollUpdates call that awaits its skip.
Reserved == starts + Cardinality(Chains \ FreeChains)

\* pollUpdates() up to its await: the request carries the offset off.
PollIssue(c, off) ==
  /\ cpc' = [cpc EXCEPT ![c] = "fetch"]
  /\ creq' = [creq EXCEPT ![c] = off]
  /\ coolDown' = [coolDown EXCEPT ![c] = FALSE]

\* The end of pollUpdates(): the timer is set only while isPolling.  The
\* locals of the call (the request, coolDown) are dropped with it unless the
\* timer's interval keeps coolDown.
Schedule(c, cool) ==
  /\ creq' = [creq EXCEPT ![c] = 0]
  /\ IF isPolling
     THEN /\ cpc' = [cpc EXCEPT ![c] = "timer"]
          /\ pollingID' = c
          /\ coolDown' = [coolDown EXCEPT ![c] = cool]
     ELSE /\ cpc' = [cpc EXCEPT ![c] = "off"]
          /\ coolDown' = [coolDown EXCEPT ![c] = FALSE]
          /\ UNCHANGED pollingID

\* Mutant: the timer is always set with the polling interval.
DelayNormal(cool) == pollingInterval

\* The interval of the timer: coolDown ? this.coolDownInterval : this.pollingInterval.
Delay(cool) == IF cool THEN coolDownInterval ELSE pollingInterval

\* The offset pollUpdates() stores after a dispatched batch.
NextOffset(batch) == Last(batch) + 1

\* The offset skipUpdates() stores after a non-empty answer.
SkipOffset(batch) == batch[1] + 1

\* startPollUpdates() up to its first await (or to its end).
startPollUpdates ==
  IF isPolling
  THEN UNCHANGED pollerVars
  ELSE /\ Reserved < MaxChains
       /\ IF skippingUpdates
          THEN /\ offset' = -1
               /\ starts' = starts + 1
               /\ UNCHANGED <<isPolling, pollingID, skippingUpdates, skipped, optPollingInterval, pollingInterval, cpc, creq, updates, coolDown>>
          ELSE /\ isPolling' = TRUE
               /\ PollIssue(NewChain, offset)
               /\ UNCHANGED <<offset, pollingID, skippingUpdates, skipped, optPollingInterval, pollingInterval, starts, updates>>

\* The chains whose cycle (fetch, dispatch, or the rest of pollUpdates()) is
\* under way.
InCycle == {c \in Chains : cpc[c] \in {"fetch", "disp", "resolved", "rejected"}}

\* Mutant: stopPollUpdates() flips isPolling.
stopPollUpdatesToggle ==
  IF isPolling
  THEN /\ isPolling' = FALSE
       /\ cpc' = [c \in Chains |-> IF c = pollingID /\ cpc[c] = "timer" THEN "off" ELSE cpc[c]]
       /\ coolDown' = [c \in Chains |-> IF c = pollingID /\ cpc[c] = "timer" THEN FALSE ELSE coolDown[c]]
       /\ UNCHANGED <<offset, pollingID, skippingUpdates, skipped, optPollingInterval, pollingInterval, starts, creq, updates>>
  ELSE /\ isPolling' = TRUE
       /\ UNCHANGED <<offset, pollingID, skippingUpdates, skipped, optPollingInterval, pollingInterval, starts, cpc, creq, updates, coolDown>>

\* stopPollUpdates(): clearTimeout cancels the timer pollingID names, if it
\* has not fired yet.
stopPollUpdates ==
  IF isPolling
  THEN /\ isPolling' = FALSE
       /\ cpc' = [c \in Chains |-> IF c = pollingID /\ cpc[c] = "timer" THEN "off" ELSE cpc[c]]
       /\ coolDown' = [c \in Chains |-> IF c = pollingID /\ cpc[c] = "timer" THEN FALSE ELSE coolDown[c]]
       /\ UNCHANGED <<offset, pollingID, skippingUpdates, skipped, optPollingInterval, pollingInterval, starts, creq, updates>>
  ELSE UNCHANGED pollerVars

\* skipUpdates() resumes with the answer to offset -1; startPollUpdates()
\* then sets isPolling and calls pollUpdates().
SkipReturn ==
  /\ running = Idle
  /\ starts > 0
  /\ LET batch == Respond(-1)
         off == IF Len(batch) > 0 THEN SkipOffset(batch) ELSE offset
     IN /\ offset' = off
        /\ PollIssue(NewChain, off)
  /\ floor' = Confirm(-1)
  /\ skipped' = skipped \cup {Respond(-1)[i] : i \in 1..Len(Respond(-1))}
  /\ starts' = starts - 1
  /\ isPolling' = TRUE
  /\ hist' = [HistNone EXCEPT !.skip = IF Len(Respond(-1)) > 0 THEN "returned" ELSE "empty",
                              !.batch = Respond(-1), !.chain = NewChain,
                              !.ret = IF isPolling' THEN "true" ELSE "false"]
  /\ UNCHANGED <<head, evIdent, upd, ident, now, pollingID, skippingUpdates, optPollingInterval, pollingInterval, updates,
                 dispVars, botVars, masterVars, stopSeen, kcalled, delivered>>

\* Mutant: the error of getUpdates() leaves skipUpdates() and startPollUpdates().
SkipFailThrows ==
  /\ running = Idle
  /\ starts > 0
  /\ starts' = starts - 1
  /\ hist' = [HistNone EXCEPT !.skip = "failed", !.ret = "threw"]
  /\ UNCHANGED <<envVars, offset, isPolling, pollingID, skippingUpdates, skipped, optPollingInterval,
                 pollingInterval, cpc, creq, updates, coolDown,
                 dispVars, botVars, masterVars, stopSeen, kcalled, delivered>>

\* getUpdates() of skipUpdates() throws: logged, and polling starts anyway.
SkipFail ==
  /\ running = Idle
  /\ starts > 0
  /\ PollIssue(NewChain, offset)
  /\ starts' = starts - 1
  /\ isPolling' = TRUE
  /\ hist' = [HistNone EXCEPT !.skip = "failed", !.chain = NewChain,
                              !.ret = IF isPolling' THEN "true" ELSE "false"]
  /\ UNCHANGED <<envVars, offset, pollingID, skippingUpdates, skipped, optPollingInterval, pollingInterval, updates,
                 dispVars, botVars, masterVars, stopSeen, kcalled, delivered>>

\* getUpdates() of pollUpdates() throws: the catch sets coolDown.
FetchFail(c) ==
  /\ running = Idle
  /\ cpc[c] = "fetch"
  /\ Schedule(c, TRUE)
  /\ hist' = [HistNone EXCEPT !.cycle = "fail", !.before = creq[c],
                              !.chain = c, !.resched = (stopSeen[c] /\ isPolling)]
  /\ stopSeen' = [stopSeen EXCEPT ![c] = FALSE]
  /\ UNCHANGED <<envVars, offset, isPolling, skippingUpdates, skipped, optPollingInterval, pollingInterval, starts, updates,
                 dispVars, botVars, masterVars, kcalled, delivered>>

\* Mutant: an empty answer is handed to onUpdates() as a batch is, so the
\* sweep runs.
FetchEmptyDispatches(c) ==
  /\ running = Idle
  /\ cpc[c] = "fetch"
  /\ Len(Respond(creq[c])) = 0
  /\ floor' = Confirm(creq[c])
  /\ updates' = [updates EXCEPT ![c] = <<>>]
  /\ cpc' = [cpc EXCEPT ![c] = "disp"]
  /\ opc' = [opc EXCEPT ![c] = "sweep"]
  /\ osnap' = [osnap EXCEPT ![c] = Entries(bots)]
  /\ osidx' = [osidx EXCEPT ![c] = 1]
  /\ running' = c
  /\ creq' = [creq EXCEPT ![c] = 0]
  /\ hist' = HistNone
  /\ UNCHANGED <<head, evIdent, upd, ident, now, offset, isPolling, pollingID, skippingUpdates, skipped,
                 optPollingInterval, pollingInterval, starts, coolDown, oidx, onew, botVars,
                 masterVars, stopSeen, kcalled, delivered>>

\* getUpdates() of pollUpdates() answers an empty batch.
FetchEmpty(c) ==
  /\ running = Idle
  /\ cpc[c] = "fetch"
  /\ Len(Respond(creq[c])) = 0
  /\ floor' = Confirm(creq[c])
  /\ Schedule(c, FALSE)
  /\ hist' = [HistNone EXCEPT !.cycle = "empty", !.before = creq[c],
                              !.chain = c, !.resched = (stopSeen[c] /\ isPolling)]
  /\ stopSeen' = [stopSeen EXCEPT ![c] = FALSE]
  /\ UNCHANGED <<head, evIdent, upd, ident, now, offset, isPolling, skippingUpdates, skipped, optPollingInterval, pollingInterval, starts,
                 updates, dispVars, botVars, masterVars, kcalled, delivered>>

\* Answers to getUpdates that are no list of updates: a body JSON.parse
\* rejects or whose "ok" is falsy, an "ok" body without "result", and an "ok"
\* body whose result is an object or a number.  (A result with a positive
\* length, a string for one, is handed to onUpdates like a batch.)
Shapes == {"unparseable", "missing", "object"}

\* request(): JSON.parse throws, or !data["ok"] throws.
RequestThrows(shape) == shape = "unparseable"

\* updates.length > 0 in pollUpdates(): reading length of undefined throws a
\* TypeError; the length of an object or a number is undefined, and
\* undefined > 0 is false.
LengthThrows(shape) == shape = "missing"

\* getUpdates() of pollUpdates() resumes with an answer of such a shape: the
\* catch is reached only when request() or the length test throws.
FetchMalformed(c, shape) ==
  /\ running = Idle
  /\ cpc[c] = "fetch"
  /\ Schedule(c, RequestThrows(shape) \/ LengthThrows(shape))
  /\ hist' = [HistNone EXCEPT !.cycle = "malformed", !.before = creq[c],
                              !.chain = c, !.resched = (stopSeen[c] /\ isPolling)]
  /\ stopSeen' = [stopSeen EXCEPT ![c] = FALSE]
  /\ UNCHANGED <<envVars, offset, isPolling, skippingUpdates, skipped, optPollingInterval, pollingInterval, starts, updates,
                 dispVars, botVars, masterVars, kcalled, delivered>>

\* getUpdates() of pollUpdates() answers a batch: onUpdates(updates) is
\* called and awaited.
FetchBatch(c) ==
  /\ running = Idle
  /\ cpc[c] = "fetch"
  /\ Len(Respond(creq[c])) > 0
  /\ floor' = Confirm(creq[c])
  /\ updates' = [updates EXCEPT ![c] = Respond(creq[c])]
  /\ cpc' = [cpc EXCEPT ![c] = "disp"]
  /\ opc' = [opc EXCEPT ![c] = "loop"]
  /\ oidx' = [oidx EXCEPT ![c] = 1]
  /\ running' = c
  /\ creq' = [creq EXCEPT ![c] = 0]
  /\ hist' = HistNone
  /\ UNCHANGED <<head, evIdent, upd, ident, now, offset, isPolling, pollingID, skippingUpdates, skipped, optPollingInterval, pollingInterval, starts,
                 coolDown, osnap, osidx, onew, botVars, masterVars, stopSeen, kcalled, delivered>>

\* pollUpdates() resumes after `await this.onUpdates(updates)`.
PollResume(c) ==
  /\ running = Idle
  /\ cpc[c] = "resolved"
  /\ offset' = NextOffset(updates[c])
  /\ updates' = [updates EXCEPT ![c] = <<>>]
  /\ Schedule(c, FALSE)
  /\ hist' = [HistNone EXCEPT !.cycle = "ok", !.batch = updates[c],
                              !.chain = c, !.resched = (stopSeen[c] /\ isPolling)]
  /\ stopSeen' = [stopSeen EXCEPT ![c] = FALSE]
  /\ UNCHANGED <<envVars, isPolling, skippingUpdates, skipped, optPollingInterval, pollingInterval, starts,
                 dispVars, botVars, masterVars, kcalled, delivered>>

\* onUpdates() rejected: the catch of pollUpdates() sets coolDown.
PollCatch(c) ==
  /\ running = Idle
  /\ cpc[c] = "rejected"
  /\ updates' = [updates EXCEPT ![c] = <<>>]
  /\ Schedule(c, TRUE)
  /\ hist' = [HistNone EXCEPT !.cycle = "rejected",
                              !.chain = c, !.resched = (stopSeen[c] /\ isPolling)]
  /\ stopSeen' = [stopSeen EXCEPT ![c] = FALSE]
  /\ UNCHANGED <<envVars, offset, isPolling, skippingUpdates, skipped, optPollingInterval, pollingInterval, starts,
                 dispVars, botVars, masterVars, kcalled, delivered>>

\* The timer set by pollUpdates() fires and calls pollUpdates() again.
TimerFire(c) ==
  /\ running = Idle
  /\ cpc[c] = "timer"
  /\ PollIssue(c, offset)
  /\ hist' = HistNone
  /\ UNCHANGED <<envVars, offset, isPolling, pollingID, skippingUpdates, skipped, optPollingInterval, pollingInterval, starts, updates,
                 dispVars, botVars, masterVars, stopSeen, kcalled, delivered>>

\* ------------------------------------------------------------- master
\* Mutant: the sweep's test with >= for >.
IsIdleAtThreshold(t, last, timeout) == t - last >= timeout

\* The sweep's test: Date.now() - bot["lastActiveTime"] > this.destroyTimeout.
IsIdle(t, last, timeout) == t - last > timeout

CurUpdate(c) == updates[c][oidx[c]]
CurIdent(c) == evIdent[CurUpdate(c)]

\* onUpdates() rejects: the poller's await will throw.
Reject(c) ==
  /\ cpc' = [cpc EXCEPT ![c] = "rejected"]
  /\ opc' = [opc EXCEPT ![c] = "none"]
  /\ oidx' = [oidx EXCEPT ![c] = 0]
  /\ osnap' = [osnap EXCEPT ![c] = <<>>]
  /\ osidx' = [osidx EXCEPT ![c] = 0]
  /\ onew' = [onew EXCEPT ![c] = 0]
  /\ running' = Idle

\* for loop, no entry for the identifier: the entry is stored with
\* lastActiveTime 0 and a new instance, then onCreate() is awaited.
OU_Create(c) ==
  /\ running = c
  /\ opc[c] = "loop"
  /\ bots[CurIdent(c)] = NoBot
  /\ nInst < MaxInst
  /\ nInst' = nInst + 1
  /\ bots' = [bots EXCEPT ![CurIdent(c)] = nInst + 1]
  /\ lastActiveTime' = [lastActiveTime EXCEPT ![nInst + 1] = 0]
  /\ created' = [created EXCEPT ![nInst + 1] = "pending"]
  /\ onew' = [onew EXCEPT ![c] = nInst + 1]
  /\ opc' = [opc EXCEPT ![c] = "onCreate"]
  /\ running' = Idle
  /\ hist' = [HistNone EXCEPT !.hook = TRUE, !.puBusy = puPending, !.chain = c]
  /\ UNCHANGED <<envVars, pollerVars, oidx, osnap, osidx, puPending,
                 optDestroyTimeout, destroyTimeout, masterVars, stopSeen, kcalled, delivered>>

\* onCreate() completed: onUpdates() goes on to processUpdate().
OU_CreateDone(c) ==
  /\ running = Idle
  /\ opc[c] = "onCreate"
  /\ created' = [created EXCEPT ![onew[c]] = "done"]
  /\ opc' = [opc EXCEPT ![c] = "process"]
  /\ onew' = [onew EXCEPT ![c] = 0]
  /\ running' = c
  /\ hist' = HistNone
  /\ UNCHANGED <<envVars, pollerVars, oidx, osnap, osidx, bots, nInst, lastActiveTime,
                 puPending, optDestroyTimeout, destroyTimeout, masterVars, stopSeen, kcalled, delivered>>

\* onCreate() threw: onUpdates() rejects; the entry stays in this.bots.
OU_CreateFail(c) ==
  /\ running = Idle
  /\ opc[c] = "onCreate"
  /\ created' = [created EXCEPT ![onew[c]] = "failed"]
  /\ Reject(c)
  /\ hist' = [HistNone EXCEPT !.threw = TRUE, !.chain = c]
  /\ UNCHANGED <<envVars, offset, isPolling, pollingID, skippingUpdates, skipped, optPollingInterval, pollingInterval, starts, creq, updates,
                 coolDown, bots, nInst, lastActiveTime,
                 puPending, optDestroyTimeout, destroyTimeout, masterVars, stopSeen, kcalled, delivered>>

\* The for loop moves to the next update, or to the sweep, which takes
\* Object.entries(this.bots).
Advance(c) ==
  IF oidx[c] < Len(updates[c])
  THEN /\ oidx' = [oidx EXCEPT ![c] = oidx[c] + 1]
       /\ opc' = [opc EXCEPT ![c] = "loop"]
       /\ UNCHANGED <<osnap, osidx>>
  ELSE /\ opc' = [opc EXCEPT ![c] = "sweep"]
       /\ osnap' = [osnap EXCEPT ![c] = Entries(bots)]
       /\ osidx' = [osidx EXCEPT ![c] = 1]
       /\ UNCHANGED oidx

\* Whether the for loop stands right before line 113 with an entry to use.
AtProcess(c) ==
  /\ running = c
  /\ \/ opc[c] = "process"
     \/ opc[c] = "loop" /\ bots[CurIdent(c)] # NoBot
  /\ bots[CurIdent(c)] # NoBot

\* What processUpdate(update) does with onUpdates(): it is not awaited.
\*   "sync":  returns (a plain function, or an async one that is done)
\*   "async": returns a pending promise; its work goes on after the call
\*   "throw": throws synchronously
\*   "reject": an async function that throws: it returns a rejected promise
PuKinds == {"sync", "async", "throw", "reject"}

\* this.bots[identifier]["instance"].processUpdate(update), then
\* lastActiveTime = Date.now().
OU_Process(c, kind) ==
  /\ AtProcess(c)
  /\ LET n == bots[CurIdent(c)]
     IN /\ hist' = [HistNone EXCEPT !.puCall = n, !.puReady = (created[n] = "done"),
                                    !.puAgain = (CurUpdate(c) \in delivered),
                                    !.hook = TRUE, !.puBusy = puPending,
                                    !.threw = (kind \in {"throw", "reject"}),
                                    !.chain = c]
        /\ delivered' = delivered \cup {CurUpdate(c)}
        /\ IF kind = "throw"
           THEN /\ Reject(c)
                /\ UNCHANGED <<lastActiveTime, puPending>>
           ELSE /\ lastActiveTime' = [lastActiveTime EXCEPT ![n] = now]
                /\ puPending' = (puPending \/ kind = "async")
                /\ Advance(c)
                /\ UNCHANGED <<cpc, onew, running>>
  /\ UNCHANGED <<envVars, offset, isPolling, pollingID, skippingUpdates, skipped, optPollingInterval, pollingInterval, starts, creq, updates,
                 coolDown, bots, nInst, created, optDestroyTimeout, destroyTimeout, masterVars, stopSeen, kcalled>>

\* After the awaited onCreate() the entry is gone (a cleanup deleted it):
\* this.bots[identifier]["instance"] throws a TypeError.
OU_ProcessGone(c) ==
  /\ running = c
  /\ opc[c] = "process"
  /\ bots[CurIdent(c)] = NoBot
  /\ Reject(c)
  /\ hist' = HistNone
  /\ UNCHANGED <<envVars, offset, isPolling, pollingID, skippingUpdates, skipped, optPollingInterval, pollingInterval, starts, creq, updates,
                 coolDown, botVars, masterVars, stopSeen, kcalled, delivered>>

\* The un-awaited async processUpdate() calls finish.
PuDone ==
  /\ running = Idle
  /\ puPending
  /\ puPending' = FALSE
  /\ hist' = HistNone
  /\ UNCHANGED <<envVars, pollerVars, dispVars, bots, nInst, lastActiveTime, created,
                 optDestroyTimeout, destroyTimeout, masterVars, stopSeen, kcalled, delivered>>

\* The sweep examines one entry of its snapshot: an idle one gets onRemove(),
\* which is awaited.
OU_Sweep(c) ==
  /\ running = c
  /\ opc[c] = "sweep"
  /\ destroyTimeout # Null
  /\ osidx[c] <= Len(osnap[c])
  /\ LET n == osnap[c][osidx[c]].inst
         idle == now - lastActiveTime[n]
     IN IF IsIdle(now, lastActiveTime[n], destroyTimeout)
        THEN /\ opc' = [opc EXCEPT ![c] = "onRemove"]
             /\ running' = Idle
             /\ hist' = [HistNone EXCEPT !.evict = n, !.idle = idle]
             /\ UNCHANGED osidx
        ELSE /\ osidx' = [osidx EXCEPT ![c] = osidx[c] + 1]
             /\ hist' = [HistNone EXCEPT !.keep = n, !.idle = idle]
             /\ UNCHANGED <<opc, running>>
  /\ UNCHANGED <<envVars, pollerVars, oidx, osnap, onew, bots, nInst, lastActiveTime, created,
                 puPending, optDestroyTimeout, destroyTimeout, masterVars, stopSeen, kcalled, delivered>>

\* The sweep's onRemove() completed: delete this.bots[identifier].
OU_RemoveDone(c) ==
  /\ running = Idle
  /\ opc[c] = "onRemove"
  /\ bots' = [bots EXCEPT ![osnap[c][osidx[c]].id] = NoBot]
  /\ osidx' = [osidx EXCEPT ![c] = osidx[c] + 1]
  /\ opc' = [opc EXCEPT ![c] = "sweep"]
  /\ running' = c
  /\ hist' = HistNone
  /\ UNCHANGED <<envVars, pollerVars, oidx, osnap, onew, nInst, lastActiveTime, created,
                 puPending, optDestroyTimeout, destroyTimeout, masterVars, stopSeen, kcalled, delivered>>

\* The sweep's onRemove() threw: onUpdates() rejects, the entry stays.
OU_RemoveFail(c) ==
  /\ running = Idle
  /\ opc[c] = "onRemove"
  /\ Reject(c)
  /\ hist' = [HistNone EXCEPT !.threw = TRUE, !.chain = c]
  /\ UNCHANGED <<envVars, offset, isPolling, pollingID, skippingUpdates, skipped, optPollingInterval, pollingInterval, starts, creq, updates,
                 coolDown, bots, nInst, lastActiveTime, created,
                 puPending, optDestroyTimeout, destroyTimeout, masterVars, stopSeen, kcalled, delivered>>

\* The sweep is through (or this.destroyTimeout is null and there is none):
\* onUpdates() returns.
OU_Return(c) ==
  /\ running = c
  /\ opc[c] = "sweep"
  /\ destroyTimeout = Null \/ osidx[c] > Len(osnap[c])
  /\ cpc' = [cpc EXCEPT ![c] = "resolved"]
  /\ opc' = [opc EXCEPT ![c] = "none"]
  /\ oidx' = [oidx EXCEPT ![c] = 0]
  /\ osnap' = [osnap EXCEPT ![c] = <<>>]
  /\ osidx' = [osidx EXCEPT ![c] = 0]
  /\ running' = Idle
  /\ hist' = HistNone
  /\ UNCHANGED <<envVars, offset, isPolling, pollingID, skippingUpdates, skipped, optPollingInterval, pollingInterval, starts, creq, updates,
                 coolDown, onew, botVars, masterVars, stopSeen, kcalled, delivered>>

\* cleanup calls onRemove() of entry i of its snapshot and awaits it, or,
\* past the last entry, awaits stopCallback().
CleanupVisit(k, snap, i, re) ==
  IF i <= Len(snap)
  THEN /\ kpc' = [kpc EXCEPT ![k] = "onRemove"]
       /\ kcalled' = kcalled \cup {snap[i].inst}
       /\ hist' = [HistNone EXCEPT !.reenter = re, !.kCall = snap[i].inst,
                                   !.kAgain = (snap[i].inst \in kcalled)]
  ELSE /\ kpc' = [kpc EXCEPT ![k] = "stopCb"]
       /\ hist' = [HistNone EXCEPT !.reenter = re, !.stopCb = TRUE]
       /\ UNCHANGED kcalled

\* SIGINT or SIGTERM: cleanup() stops the poller and starts on the entries
\* of Object.entries(this.bots).
Signal(k) ==
  /\ running = Idle
  /\ loopPc # "new"
  /\ kpc[k] = "off"
  /\ \A j \in Cleanups : j < k => kpc[j] # "off"
  /\ stopPollUpdates
  /\ stopSeen' = [c \in Chains |-> stopSeen[c] \/ c \in InCycle]
  /\ ksnap' = [ksnap EXCEPT ![k] = Entries(bots)]
  /\ kidx' = [kidx EXCEPT ![k] = 1]
  /\ CleanupVisit(k, Entries(bots), 1, \E j \in Cleanups : kpc[j] \in {"onRemove", "stopCb"})
  /\ UNCHANGED <<envVars, dispVars, bots, nInst, lastActiveTime, created, puPending,
                 optDestroyTimeout, destroyTimeout, loopPc, calls, delivered>>

\* cleanup's onRemove() completed: delete this.bots[identifier], next entry.
K_RemoveDone(k) ==
  /\ running = Idle
  /\ kpc[k] = "onRemove"
  /\ bots' = [bots EXCEPT ![ksnap[k][kidx[k]].id] = NoBot]
  /\ kidx' = [kidx EXCEPT ![k] = kidx[k] + 1]
  /\ CleanupVisit(k, ksnap[k], kidx[k] + 1, FALSE)
  /\ UNCHANGED <<envVars, pollerVars, dispVars, nInst, lastActiveTime, created, puPending,
                 optDestroyTimeout, destroyTimeout, loopPc, ksnap, calls, stopSeen, delivered>>

\* cleanup's onRemove() threw: cleanup() rejects where it stands.
K_RemoveFail(k) ==
  /\ running = Idle
  /\ kpc[k] = "onRemove"
  /\ kpc' = [kpc EXCEPT ![k] = "failed"]
  /\ ksnap' = [ksnap EXCEPT ![k] = <<>>]
  /\ kidx' = [kidx EXCEPT ![k] = 0]
  /\ hist' = HistNone
  /\ UNCHANGED <<envVars, pollerVars, dispVars, bots, nInst, lastActiveTime, created,
                 puPending, optDestroyTimeout, destroyTimeout, loopPc, calls, stopSeen, kcalled, delivered>>

\* Mutant: cleanup ends with process.exit(0), which drops every pending
\* request, timer and continuation of the process.
K_StopDoneExit(k) ==
  /\ running = Idle
  /\ kpc[k] = "stopCb"
  /\ kpc' = [kpc EXCEPT ![k] = "done"]
  /\ ksnap' = [ksnap EXCEPT ![k] = <<>>]
  /\ kidx' = [kidx EXCEPT ![k] = 0]
  /\ starts' = 0
  /\ cpc' = [c \in Chains |-> "off"]
  /\ creq' = [c \in Chains |-> 0]
  /\ updates' = [c \in Chains |-> <<>>]
  /\ coolDown' = [c \in Chains |-> FALSE]
  /\ opc' = [c \in Chains |-> "none"]
  /\ oidx' = [c \in Chains |-> 0]
  /\ osnap' = [c \in Chains |-> <<>>]
  /\ osidx' = [c \in Chains |-> 0]
  /\ onew' = [c \in Chains |-> 0]
  /\ puPending' = FALSE
  /\ hist' = HistNone
  /\ UNCHANGED <<envVars, offset, isPolling, pollingID, skippingUpdates, skipped, optPollingInterval,
                 pollingInterval, running, bots, nInst, lastActiveTime, created,
                 optDestroyTimeout, destroyTimeout, loopPc, calls, stopSeen, kcalled, delivered>>

\* cleanup's stopCallback() completed.
K_StopDone(k) ==
  /\ running = Idle
  /\ kpc[k] = "stopCb"
  /\ kpc' = [kpc EXCEPT ![k] = "done"]
  /\ ksnap' = [ksnap EXCEPT ![k] = <<>>]
  /\ kidx' = [kidx EXCEPT ![k] = 0]
  /\ hist' = HistNone
  /\ UNCHANGED <<envVars, pollerVars, dispVars, botVars, loopPc, calls, stopSeen, kcalled, delivered>>

\* loop(): the signal handlers are registered, startCallback() is awaited.
LoopCall ==
  /\ loopPc = "new"
  /\ loopPc' = "startCb"
  /\ hist' = HistNone
  /\ UNCHANGED <<envVars, pollerVars, dispVars, botVars, kpc, ksnap, kidx, calls, stopSeen, kcalled, delivered>>

\* Mutant: polling is started before getMe() is awaited.
LoopStartedPolls ==
  /\ running = Idle
  /\ loopPc = "startCb"
  /\ loopPc' = "getMe"
  /\ startPollUpdates
  /\ hist' = HistNone
  /\ UNCHANGED <<envVars, dispVars, botVars, kpc, ksnap, kidx, calls, stopSeen, kcalled, delivered>>

\* startCallback() completed: getMe() is awaited.
LoopStarted ==
  /\ running = Idle
  /\ loopPc = "startCb"
  /\ loopPc' = "getMe"
  /\ hist' = HistNone
  /\ UNCHANGED <<envVars, pollerVars, dispVars, botVars, kpc, ksnap, kidx, calls, stopSeen, kcalled, delivered>>

\* getMe() answered: botID and botName are set, startPollUpdates() is called.
LoopGetMe ==
  /\ running = Idle
  /\ loopPc = "getMe"
  /\ loopPc' = "done"
  /\ startPollUpdates
  /\ hist' = HistNone
  /\ UNCHANGED <<envVars, dispVars, botVars, kpc, ksnap, kidx, calls, stopSeen, kcalled, delivered>>

\* Mutant: the catch of getMe() lacks its return, startPollUpdates() follows.
LoopGetMeFailStarts ==
  /\ running = Idle
  /\ loopPc = "getMe"
  /\ loopPc' = "abortCb"
  /\ startPollUpdates
  /\ hist' = [HistNone EXCEPT !.loopStop = TRUE]
  /\ UNCHANGED <<envVars, dispVars, botVars, kpc, ksnap, kidx, calls, stopSeen, kcalled, delivered>>

\* getMe() threw: the catch logs and awaits stopCallback().
LoopGetMeFail ==
  /\ running = Idle
  /\ loopPc = "getMe"
  /\ loopPc' = "abortCb"
  /\ hist' = [HistNone EXCEPT !.loopStop = TRUE]
  /\ UNCHANGED <<envVars, pollerVars, dispVars, botVars, kpc, ksnap, kidx, calls, stopSeen, kcalled, delivered>>

\* stopCallback() of the catch completed: loop() returns.
LoopAborted ==
  /\ running = Idle
  /\ loopPc = "abortCb"
  /\ loopPc' = "aborted"
  /\ hist' = HistNone
  /\ UNCHANGED <<envVars, pollerVars, dispVars, botVars, kpc, ksnap, kidx, calls, stopSeen, kcalled, delivered>>

\* The host calls startPollUpdates() of the poller itself.
StartCall ==
  /\ running = Idle
  /\ calls < MaxCalls
  /\ calls' = calls + 1
  /\ startPollUpdates
  /\ hist' = HistNone
  /\ UNCHANGED <<envVars, dispVars, botVars, loopPc, kpc, ksnap, kidx, stopSeen, kcalled, delivered>>

\* The host calls stopPollUpdates() of the poller itself.
StopCall ==
  /\ running = Idle
  /\ calls < MaxCalls
  /\ calls' = calls + 1
  /\ stopPollUpdates
  /\ stopSeen' = [c \in Chains |-> stopSeen[c] \/ c \in InCycle]
  /\ hist' = [HistNone EXCEPT !.stopCall = IF isPolling THEN "polling" ELSE "stopped"]
  /\ UNCHANGED <<envVars, dispVars, botVars, loopPc, kpc, ksnap, kidx, kcalled, delivered>>

\* ----------------------------------------------------- specifications
PollerStep ==
  \/ SkipReturn
  \/ SkipFail
  \/ \E c \in Chains : FetchFail(c)
  \/ \E c \in Chains : FetchEmpty(c)
  \/ \E c \in Chains, shape \in Shapes : FetchMalformed(c, shape)
  \/ \E c \in Chains : FetchBatch(c)
  \/ \E c \in Chains : PollResume(c)
  \/ \E c \in Chains : PollCatch(c)
  \/ \E c \in Chains : TimerFire(c)

DispatchStep ==
  \/ \E c \in Chains : OU_Create(c)
  \/ \E c \in Chains : OU_CreateDone(c)
  \/ \E c \in Chains : OU_CreateFail(c)
  \/ \E c \in Chains, kind \in PuKinds : OU_Process(c, kind)
  \/ \E c \in Chains : OU_ProcessGone(c)
  \/ PuDone
  \/ \E c \in Chains : OU_Sweep(c)
  \/ \E c \in Chains : OU_RemoveDone(c)
  \/ \E c \in Chains : OU_RemoveFail(c)
  \/ \E c \in Chains : OU_Return(c)

MasterStep ==
  \/ LoopCall
  \/ LoopStarted
  \/ LoopGetMe
  \/ LoopGetMeFail
  \/ LoopAborted
  \/ Signal(1)
  \/ \E k \in Cleanups : K_RemoveDone(k)
  \/ \E k \in Cleanups : K_RemoveFail(k)
  \/ \E k \in Cleanups : K_StopDone(k)

EnvStep ==
  \/ \E id \in Identifiers : Produce(id)
  \/ Tick

\* The program as BotMaster.loop() runs it, with one termination signal.
Next == EnvStep \/ PollerStep \/ DispatchStep \/ MasterStep
Spec == Init /\ [][Next]_vars

\* The program as BotMaster.loop() runs it when further termination signals
\* arrive; the clock stands still, so the sweep finds idle only the sessions
\* whose lastActiveTime is still 0.
NextShutdown ==
  \/ \E id \in Identifiers : Produce(id)
  \/ PollerStep
  \/ DispatchStep
  \/ MasterStep
  \/ \E k \in Cleanups \ {1} : Signal(k)
SpecShutdown == Init /\ [][NextShutdown]_vars

\* The program as BotMaster.loop() runs it with opts["destroyTimeout"] left
\* out and the clock standing still.  A timer that was set fires, and the
\* hooks, callbacks and continuations of the program itself complete; only
\* the answers of the network may stay away.
InitLive == Init /\ optDestroyTimeout = Null
NextLive ==
  \/ \E id \in Identifiers : Produce(id)
  \/ PollerStep
  \/ DispatchStep
  \/ MasterStep
Fairness ==
  /\ \A c \in Chains : WF_vars(TimerFire(c))
  /\ \A c \in Chains : WF_vars(PollResume(c) \/ PollCatch(c))
  /\ WF_vars(DispatchStep)
  /\ \A k \in Cleanups : WF_vars(K_RemoveDone(k) \/ K_StopDone(k))
SpecLive == InitLive /\ [][NextLive]_vars /\ Fairness

\* loop() with a destroyTimeout and no signal, the clock running: timers
\* fire, the program's own steps complete and the network answers every
\* fetch; whether further updates arrive is left open.  Without a cleanup
\* no entry disappears during an awaited onCreate().
InitIdle == Init /\ optDestroyTimeout # Null
NextIdle ==
  \/ EnvStep
  \/ PollerStep
  \/ \E c \in Chains : OU_Create(c)
  \/ \E c \in Chains : OU_CreateDone(c)
  \/ \E c \in Chains : OU_CreateFail(c)
  \/ \E c \in Chains, kind \in PuKinds : OU_Process(c, kind)
  \/ PuDone
  \/ \E c \in Chains : OU_Sweep(c)
  \/ \E c \in Chains : OU_RemoveDone(c)
  \/ \E c \in Chains : OU_RemoveFail(c)
  \/ \E c \in Chains : OU_Return(c)
  \/ LoopCall
  \/ LoopStarted
  \/ LoopGetMe
  \/ LoopGetMeFail
  \/ LoopAborted
Answered(c) ==
  \/ FetchFail(c)
  \/ FetchEmpty(c)
  \/ FetchBatch(c)
  \/ \E shape \in Shapes : FetchMalformed(c, shape)
SpecIdle ==
  /\ InitIdle
  /\ [][NextIdle]_vars
  /\ Fairness
  /\ \A c \in Chains : WF_vars(Answered(c))
  /\ WF_vars(SkipReturn \/ SkipFail)

\* The constructors alone, for every configuration.
NextOpts == Construct
SpecOpts == InitOpts /\ [][NextOpts]_vars

\* The identify functions alone, applied to every shape of update.
Identify(by) ==
  /\ ident' = [by |-> by, key |-> IF by = "from" THEN perFromID(upd) ELSE perChatID(upd)]
  /\ UNCHANGED <<head, evIdent, floor, now, upd, pollerVars, dispVars, botVars, masterVars,
                 stopSeen, kcalled, delivered, hist>>

InitIdentify ==
  /\ Fresh
  /\ upd \in UpdateShapes
  /\ skippingUpdates
  /\ optDestroyTimeout = Null
  /\ optPollingInterval = Null
  /\ loopPc = "unbuilt"
  /\ pollingInterval = Null
  /\ destroyTimeout = Null
NextIdentify == \E by \in {"from", "chat"} : Identify(by)
SpecIdentify == InitIdentify /\ [][NextIdentify]_vars

\* A host that makes no use of loop() and calls startPollUpdates() and
\* stopPollUpdates() of the master's poller itself.  It leaves
\* opts["destroyTimeout"] out, and the clock stands still.
InitAPI == Init /\ optDestroyTimeout = Null
NextAPI ==
  \/ \E id \in Identifiers : Produce(id)
  \/ PollerStep
  \/ DispatchStep
  \/ StartCall
  \/ StopCall
SpecAPI == InitAPI /\ [][NextAPI]_vars

\* The host's calls; timers fire and the program's own steps complete.
SpecAPILive == SpecAPI /\ Fairness

\* ------------------------------------------------------------- claims
\* C1: a cycle that dispatched a non-empty batch leaves the cursor at the
\* largest update_id of the batch plus one; a cycle whose fetch answered an
\* empty batch or threw leaves the cursor at the value the cycle started with.
C1_CursorAfterCycle ==
  /\ hist.cycle = "ok" =>
       \E i \in 1..Len(hist.batch) :
         /\ \A j \in 1..Len(hist.batch) : hist.batch[j] <= hist.batch[i]
         /\ offset = hist.batch[i] + 1
  /\ hist.cycle \in {"empty", "fail"} => offset = hist.before

\* C2: no step makes the cursor smaller.
C2_CursorMonotone == [][offset' >= offset]_vars

\* C3: at most one pollUpdates cycle has its fetch or dispatch pending.
C3_OneCycleInFlight ==
  Cardinality({c \in Chains : cpc[c] \in {"fetch", "disp"}}) <= 1

\* C4: processUpdate is never called with an event it was called with before.
C4_AtMostOnce == ~hist.puAgain

\* C5: when a session hook throws during onUpdates, the dispatch stops there
\* and the poller sees it fail.
C5_ThrowFailsCycle == hist.threw => cpc[hist.chain] = "rejected"

\* C6: while a dispatch is pending the cursor does not move and no fetch is
\* issued; the cursor moves past a batch only once its dispatch has completed.
C6_AdvanceAfterDispatch ==
  [][(\E c \in Chains : cpc[c] = "disp" \/ cpc'[c] = "disp")
       => /\ offset' = offset
          /\ \A d \in Chains : cpc'[d] = "fetch" => cpc[d] = "fetch"
          /\ starts' <= starts]_vars

\* C7: a session hook of the dispatch (onCreate, processUpdate) starts only
\* when the processUpdate calls made before it have completed.
C7_HooksSequential == hist.hook => ~hist.puBusy

\* C8: processUpdate is called only on an instance whose onCreate completed.
C8_CreateBeforeProcess == hist.puCall # 0 => hist.puReady

\* C9: an entry of the session map holds an instance whose onCreate has
\* completed, and a cleanup calls onRemove only on such instances.
C9_InsertAfterCreate ==
  /\ \A i \in Identifiers : bots[i] # NoBot => created[bots[i]] = "done"
  /\ \A k \in Cleanups : kpc[k] = "onRemove" => created[ksnap[k][kidx[k]].inst] = "done"

\* C10, as claimed: the sweep evicts exactly when the idle time
\* (sweep time - lastActiveTime) is at least the threshold.
C10_EvictAtThreshold ==
  /\ hist.evict # 0 => hist.idle >= destroyTimeout
  /\ hist.keep # 0 => hist.idle < destroyTimeout

\* C10, amended: the sweep evicts exactly when the idle time is larger than
\* the threshold; a sweep at exactly lastActiveTime + threshold keeps the session.
C10_EvictPastThreshold ==
  /\ hist.evict # 0 => hist.idle > destroyTimeout
  /\ hist.keep # 0 => hist.idle <= destroyTimeout

\* The sweep calls onRemove on a session at the first time its rule allows.
C10_Witness ==
  /\ hist.evict # 0
  /\ lastActiveTime[hist.evict] > 0
  /\ hist.idle = destroyTimeout + 1
\* C11: when opts["destroyTimeout"] is configured as null, the idle sweep
\* never calls onRemove on a session.
C11_NullDisablesSweep == optDestroyTimeout = Null => hist.evict = 0
\* C12: cleanup is not called again while an earlier call of it is awaiting
\* onRemove() or stopCallback().
C12_CleanupOnce == ~hist.reenter

\* C13: the shutdown calls onRemove() on no session twice, and calls
\* stopCallback() at most once.
C13_RemoveOnceThenStop ==
  /\ ~hist.kAgain
  /\ Cardinality({k \in Cleanups : kpc[k] \in {"stopCb", "done"}}) <= 1

\* C14: when cleanup calls onRemove() or stopCallback() the poller is not
\* polling, and when it calls stopCallback() this.bots is empty.
C14_ShutdownOrder ==
  /\ (hist.kCall # 0 \/ hist.stopCb) => ~isPolling
  /\ hist.stopCb => \A i \in Identifiers : bots[i] = NoBot
\* C15: a cycle during which stopPollUpdates was called does not set the
\* timer for a next cycle when it ends.
C15_NoRescheduleAfterStop == ~hist.resched

\* C16: while the poller is stopped (isPolling false and no startPollUpdates
\* call under way) no fetch is issued.
C16_NoFetchWhileStopped ==
  [][(~isPolling /\ ~isPolling' /\ starts = 0 /\ starts' = 0)
       => \A c \in Chains : cpc'[c] = "fetch" => cpc[c] = "fetch"]_vars

\* C17: however often startPollUpdates is called, at most one skip fetch or
\* chain of poll cycles exists.
C17_StartIdempotent == starts + Cardinality({c \in Chains : cpc[c] # "off"}) <= 1

\* C18: stopPollUpdates leaves isPolling false and the cursor as it was, and
\* a call on a poller that is not polling changes nothing of the poller.
C18_StopIdempotent ==
  [][hist'.stopCall # "none"
       => /\ ~isPolling'
          /\ offset' = offset
          /\ hist'.stopCall = "stopped" => UNCHANGED pollerVars]_vars

\* stopPollUpdates is called on a poller that polled and was stopped before.
C18_Witness == hist.stopCall = "stopped" /\ delivered # {} /\ calls >= 3
\* C19: a cycle that failed (getUpdates or onUpdates threw) and set the timer
\* set it with the cooldown interval; a cycle that succeeded set it with the
\* polling interval.
C19_CoolDownAfterFailure ==
  /\ (hist.cycle \in {"fail", "rejected"} /\ cpc[hist.chain] = "timer")
       => Delay(coolDown[hist.chain]) = coolDownInterval
  /\ (hist.cycle \in {"ok", "empty"} /\ cpc[hist.chain] = "timer")
       => Delay(coolDown[hist.chain]) = pollingInterval

\* A cycle whose dispatch threw has set the timer.
C19_Witness ==
  /\ hist.cycle = "rejected"
  /\ cpc[hist.chain] = "timer"
  /\ isPolling

\* C20: for every configured polling interval the constructors accept, the
\* cooldown interval is larger than the polling interval.
C20_CoolDownLarger == loopPc # "unbuilt" => coolDownInterval > pollingInterval

\* C21: while the poller is polling, a cycle that failed is followed by a
\* fetch of the same chain with the same cursor, unless stopPollUpdates is
\* called first.
C21_RetryAfterFailure ==
  \A c \in Chains, v \in -1..(MaxEvents + 1) :
    (hist.cycle \in {"fail", "rejected"} /\ hist.chain = c /\ isPolling /\ offset = v)
      ~> (~isPolling \/ (cpc[c] = "fetch" /\ creq[c] = v))
\* C22: an update the skip fetch returned is never handed to onUpdates or
\* processUpdate, and the skip leaves the cursor one past that update.
C22_SkippedNeverDispatched ==
  /\ \A e \in skipped :
        /\ e \notin delivered
        /\ \A c \in Chains : \A i \in 1..Len(updates[c]) : updates[c][i] # e
  /\ hist.skip = "returned" => offset = hist.batch[1] + 1

\* C23: when the skip fetch fails, startPollUpdates still sets the polling
\* state, starts the first cycle and resolves with true.
C23_SkipFailureStartsPolling ==
  hist.skip = "failed" =>
    /\ isPolling
    /\ hist.chain \in Chains
    /\ cpc[hist.chain] = "fetch"
    /\ hist.ret = "true"

\* The skip fetch has failed after an update had arrived.
C23_Witness == hist.skip = "failed" /\ head > 0 /\ isPolling

\* C24: every fetch of a poll cycle carries a cursor of at least 0.
C24_CycleCursorNonNegative == \A c \in Chains : cpc[c] = "fetch" => creq[c] >= 0
C26_StartupOrder ==
  [][/\ loopPc' = "startCb" => loopPc \in {"new", "startCb"}
     /\ loopPc' = "getMe" => loopPc \in {"startCb", "getMe"}
     /\ loopPc' \in {"done", "abortCb"} => loopPc \in {"getMe", loopPc'}
     /\ loopPc' \in {"new", "startCb", "getMe"} =>
          /\ ~isPolling' /\ starts' = 0
          /\ \A c \in Chains : cpc'[c] = "off"
          /\ nInst' = 0]_vars

\* The identity is resolved and a session has been created.
C26_Witness == loopPc = "done" /\ nInst > 0
\* C27: a fetch answer that is no list of updates ends the cycle as a failed
\* fetch does: nothing is dispatched, the cursor stays, and the timer, when
\* set, is set with the cooldown interval.
C27_MalformedLikeFailure ==
  [][hist'.cycle = "malformed" =>
       /\ offset' = offset
       /\ UNCHANGED <<updates, opc, delivered>>
       /\ cpc'[hist'.chain] = "timer" => Delay(coolDown'[hist'.chain]) = coolDownInterval]_vars
\* C28: when a shutdown signal finds a fetch pending, the poller's work ends
\* all the same: eventually no fetch is pending and no timer is set.
C28_StuckFetchEndsWithShutdown ==
  ((\E k \in Cleanups : kpc[k] # "off") /\ (\E c \in Chains : cpc[c] = "fetch"))
    ~> (starts = 0 /\ \A c \in Chains : cpc[c] = "off")
\* C29: the signal handlers and the cleanup they run never end the process:
\* a step of cleanup leaves every pending fetch, dispatch and processUpdate in
\* place and takes away nothing but the timer stopPollUpdates clears.
C29_CleanupNeverExits ==
  [][kpc' # kpc =>
       /\ UNCHANGED <<dispVars, puPending, starts, creq, updates>>
       /\ \A c \in Chains :
            cpc'[c] # cpc[c] => (cpc[c] = "timer" /\ c = pollingID /\ cpc'[c] = "off")]_vars

\* cleanup has completed while a fetch and a processUpdate are still pending.
C29_Witness ==
  /\ \E k \in Cleanups : kpc[k] = "done"
  /\ \E c \in Chains : cpc[c] = "fetch"
  /\ puPending
\* C30: perFromID and perChatID return "0" for a null update and for an
\* update without message, without from (or chat) or without id, and the id
\* as a string otherwise; the result depends on the update alone.
C30_IdentifyTotal ==
  LET m == IF upd = <<>> THEN <<>> ELSE upd[1].message
      u == IF m = <<>> THEN <<>> ELSE IF ident.by = "from" THEN m[1].from ELSE m[1].chat
      id == IF u = <<>> THEN <<>> ELSE u[1].id
  IN ident.by # "none" =>
       /\ id = <<>> => ident.key = "0"
       /\ id # <<>> => ident.key = ToString(id[1])
       /\ \A by \in {"from", "chat"} :
            ident.by = by => ident.key = (IF by = "from" THEN perFromID(upd) ELSE perChatID(upd))

\* perFromID has been applied to an update whose sender has no id.
C30_Witness ==
  /\ ident.by = "from"
  /\ upd # <<>> /\ upd[1].message # <<>> /\ upd[1].message[1].from # <<>>
  /\ upd[1].message[1].from[1].id = <<>>
  /\ ident.key = "0"
\* C31: once a cleanup has completed, this.bots is empty and neither
\* onCreate() nor processUpdate() is called.
C31_QuietAfterCleanup ==
  (\E k \in Cleanups : kpc[k] = "done") =>
    /\ \A id \in Identifiers : bots[id] = NoBot
    /\ ~hist.hook
\* C32: once a signal has run cleanup, the poller is not polling and no
\* skip fetch or cycle fetch is issued any more.
C32_NoPollingAfterSignal ==
  [][(\E k \in Cleanups : kpc[k] # "off") =>
       /\ ~isPolling'
       /\ \A c \in Chains : cpc'[c] = "fetch" => cpc[c] = "fetch"]_vars
\* C33: onRemove() is called at most once on an instance: a cleanup does not
\* call it on an instance the sweep is awaiting it on or a cleanup has called
\* it on, and the sweep does not call it on an instance a cleanup has.
C33_RemoveAtMostOnce ==
  /\ ~hist.kAgain
  /\ hist.kCall # 0 =>
        \A c \in Chains : opc[c] = "onRemove" => osnap[c][osidx[c]].inst # hist.kCall
  /\ hist.evict # 0 => hist.evict \notin kcalled
\* C34: while the poller is stopped (isPolling false and no startPollUpdates
\* call under way), onUpdates is not called and the cursor does not change.
C34_StoppedMeansQuiet ==
  [][(~isPolling /\ ~isPolling' /\ starts = 0 /\ starts' = 0) =>
       /\ offset' = offset
       /\ \A c \in Chains : cpc'[c] = "disp" => cpc[c] = "disp"]_vars
\* C35: an instance whose onCreate() threw has no entry in this.bots, and
\* processUpdate() is never called on it.
C35_FailedCreateLeavesNoEntry ==
  /\ \A id \in Identifiers : bots[id] # NoBot => created[bots[id]] # "failed"
  /\ hist.puCall # 0 => created[hist.puCall] # "failed"
\* C36: while the poller keeps polling, a session that is idle for longer
\* than the threshold is eventually evicted, also when every cycle from then
\* on ends with an empty batch (no cycle ends in any other way).
C36_IdleEventuallyEvicted ==
  \A n \in Insts :
    ((\E id \in Identifiers : bots[id] = n)
       /\ isPolling /\ IsIdle(now, lastActiveTime[n], destroyTimeout))
      ~> \/ \A id \in Identifiers : bots[id] # n
         \/ ~isPolling
         \/ hist.cycle \in {"ok", "fail", "rejected", "malformed"}
\* C37: the sweep of an onUpdates call does not call onRemove() on the
\* session of an identifier that an update of the same batch was for.
C37_NoEvictionInOwnBatch ==
  \A c \in Chains :
    opc[c] = "onRemove" =>
      \A j \in 1..Len(updates[c]) : evIdent[updates[c][j]] # osnap[c][osidx[c]].id
\* C38: a fetch of a poll cycle is issued only while isPolling is true.
C38_FetchOnlyWhilePolling ==
  [][\A c \in Chains : (cpc'[c] = "fetch" /\ cpc[c] # "fetch") => isPolling']_vars
\* C39: a cycle whose fetch fails or answers an empty batch ends without
\* touching the registry: this.bots, every lastActiveTime and the state of
\* onUpdates are as before, and no update is delivered.
C39_EmptyCycleLeavesRegistry ==
  [][\A c \in Chains :
       (/\ cpc[c] = "fetch" /\ cpc'[c] # "fetch"
        /\ Len(Respond(creq[c])) = 0 \/ hist'.cycle = "fail") =>
         /\ cpc'[c] \in {"timer", "off"}
         /\ UNCHANGED <<bots, nInst, lastActiveTime, created, dispVars, delivered>>]_vars

\* An empty cycle has ended while a session is idle beyond the threshold.
C39_Witness ==
  /\ hist.cycle = "empty"
  /\ destroyTimeout # Null
  /\ \E id \in Identifiers :
       bots[id] # NoBot /\ IsIdle(now, lastActiveTime[bots[id]], destroyTimeout)
====
